---- MODULE Spec2Model ----
(***************************************************************************)
(* Model of the Polymarket signal pipeline (src/polymarket.py) and of the  *)
(* backtest scorer (src/backtest.py).                                      *)
(*                                                                         *)
(* Representation.                                                         *)
(*  - A Python value that may be None or missing is a sequence of length   *)
(*    at most one: <<>> is None/missing, <<v>> is the value v.             *)
(*  - A string that the code searches in is a sequence of one-character    *)
(*    strings; every other string is a TLA+ string.                        *)
(*  - A percentage is an integer counting 1/Q of the last decimal the code *)
(*    rounds to, so that round(x, n) is a real operation (RoundDiv) and    *)
(*    not the identity.  Floating-point representation error is not        *)
(*    modelled.                                                            *)
(*  - list(set(xs)) iterates in the order the interpreter's string hashing *)
(*    gives; that order is fixed within a process and differs between      *)
(*    processes.  It is the variable seed, a permutation of the tickers,   *)
(*    chosen when a process starts.                                        *)
(***************************************************************************)
EXTENDS Integers, Sequences, FiniteSets, TLC

VARIABLES
    cfg,          \* the loaded config.json
    seed,         \* string-hash iteration order of the running process
    pc,           \* position of the running process
    question,     \* categorize_market: argument
    description,  \* categorize_market: argument
    catResult,    \* categorize_market: returned (category, stocks)
    raw,          \* fetch_markets result (annotated in place by the filter)
    relevant,     \* filter_relevant_markets result
    signals,      \* calculate_signals result
    prevSignals,  \* signals of the previous run over the same raw markets
    db,           \* table market_snapshots, in rowid order
    clock,        \* wall clock (UTC): <<day, second of day>>
    cycle,        \* the polling cycle's markets handed to save_snapshot
    saved,        \* the cycle's markets have been stored
    history,      \* get_historical_changes: arguments, cutoff and returned rows
    sigfile,      \* the "major" list of a persisted signals_*.json
    quotes,       \* what the price provider holds for each ticker
    results       \* analyze_signal_performance result

vars == <<cfg, seed, pc, question, description, catResult, raw, relevant,
          signals, prevSignals, db, clock, cycle, saved, history, sigfile,
          quotes, results>>

catVars == <<question, description, catResult>>
pipeVars == <<raw, relevant, signals, prevSignals>>
dbVars == <<db, clock, cycle, saved, history>>
btVars == <<sigfile, quotes, results>>

----------------------------------------------------------------------------
(* Bounds of the model. *)

MaxLen == 2       \* longest question / description, in characters
MaxRaw == 2       \* largest fetched batch
MaxSig == 3       \* largest list handed to calculate_signals
MaxRows == 3      \* rows market_snapshots may hold
MaxDay == 2       \* last calendar day the clock reaches
MaxMajor == 2     \* major signals in a signals file

Q == 3            \* sub-units per rounding quantum

----------------------------------------------------------------------------
(* Generic helpers. *)

None == <<>>
Some(v) == <<v>>

\* Python's "x or 0" for a number that may be None
OrZero(x) == IF x = None THEN 0 ELSE x[1]

Abs(x) == IF x < 0 THEN -x ELSE x

Range(s) == {s[i] : i \in 1..Len(s)}

Min(S) == CHOOSE x \in S : \A y \in S : x <= y

SeqsUpTo(S, n) == UNION {[1..k -> S] : k \in 0..n}

RECURSIVE SumSeq(_)
SumSeq(s) == IF s = <<>> THEN 0 ELSE s[1] + SumSeq(Tail(s))

RECURSIVE Flatten(_)
Flatten(ss) == IF ss = <<>> THEN <<>> ELSE ss[1] \o Flatten(Tail(ss))

\* floor(a / b) for b > 0, also for negative a
FloorDiv(a, b) == IF a >= 0 THEN a \div b ELSE -((-a + b - 1) \div b)

\* round(a / b) to the nearest integer, b > 0; an exact tie goes up when
\* tieUp and down otherwise
RoundDivTie(a, b, tieUp) ==
    LET f == FloorDiv(a, b)
        r == a - f * b
    IN  IF 2 * r < b THEN f
        ELSE IF 2 * r > b THEN f + 1
        ELSE IF tieUp THEN f + 1 ELSE f

\* round(a / b), ties to even (Python's round on an exactly held tie)
RoundDiv(a, b) == RoundDivTie(a, b, FloorDiv(a, b) % 2 = 1)

----------------------------------------------------------------------------
(* Configuration (config.json). *)

Tickers == {"X", "Y"}

\* a stock_impact value: a list of tickers, or something that is not a list
ListValue(xs) == [isList |-> TRUE, items |-> xs]
NotAList == [isList |-> FALSE, items |-> <<>>]

CatFed == [name |-> "fed",
           conf |-> [keywords |-> Some(<< <<"a", "B">> >>),
                     stock_impact |-> Some(<<ListValue(<<"X", "Y">>), NotAList, ListValue(<<"Y">>)>>)]]
CatWar == [name |-> "war",
           conf |-> [keywords |-> Some(<< <<"b">>, <<"a", " ", "a">> >>),
                     stock_impact |-> Some(<<ListValue(<<"Y">>)>>)]]
CatOil == [name |-> "oil",
           conf |-> [keywords |-> Some(<< <<"A">> >>),
                     stock_impact |-> None]]
CatNil == [name |-> "nil",
           conf |-> [keywords |-> None,
                     stock_impact |-> Some(<<ListValue(<<"X">>)>>)]]

Watchlists == { <<CatFed, CatWar>>, <<CatWar, CatFed>>,
                <<CatNil, CatWar, CatOil>>, <<CatOil, CatFed, CatWar>> }

\* thresholds in percent * 100 * Q:  5.0 / 2.0, and an inverted pair
Thresholds == { [major_change |-> 500 * Q, notable_change |-> 200 * Q],
                [major_change |-> 200 * Q, notable_change |-> 500 * Q] }

MinVolume == 1000

Configs == { [watchlist |-> w,
              alert_thresholds |-> [min_volume_24h |-> MinVolume,
                                    major_change |-> t.major_change,
                                    notable_change |-> t.notable_change]]
             : w \in Watchlists, t \in Thresholds }

\* the iteration orders a set of tickers can have
Perms(S) == {p \in [1..Cardinality(S) -> S] : Range(p) = S}

\* list(set(xs)) in a process whose hash order is sd
ListOfSet(xs, sd) == SelectSeq(sd, LAMBDA t : t \in Range(xs))

----------------------------------------------------------------------------
(* categorize_market *)

Alphabet == {"a", "A", "b"}
Strings == SeqsUpTo(Alphabet, MaxLen)

LowerChar(c) == CASE c = "A" -> "a" [] c = "B" -> "b" [] OTHER -> c

\* str.lower()
Lower(s) == [i \in 1..Len(s) |-> LowerChar(s[i])]

\* Python's "k in t" for strings
Contains(t, k) ==
    \E i \in 0..(Len(t) - Len(k)) : \A j \in 1..Len(k) : t[i + j] = k[j]

\* text = f"{question} {description}".lower()
TextOf(q, d) == Lower(q \o <<" ">> \o d)

\* cat_config.get("keywords", [])
KeywordsOf(conf) == IF conf.keywords = None THEN <<>> ELSE conf.keywords[1]

\* mutant of CategoryMatches: the keyword is not lower-cased before the test
CategoryMatchesCaseSensitive(conf, text) ==
    \E i \in 1..Len(KeywordsOf(conf)) : Contains(text, KeywordsOf(conf)[i])

\* the inner loop's test: some keyword of the category is in the text
CategoryMatches(conf, text) ==
    \E i \in 1..Len(KeywordsOf(conf)) : Contains(text, Lower(KeywordsOf(conf)[i]))

\* stocks.extend(value) over the list values of cat_config.get("stock_impact", {})
StocksOf(conf) ==
    LET impact == IF conf.stock_impact = None THEN <<>> ELSE conf.stock_impact[1]
        lists == SelectSeq(impact, LAMBDA v : v.isList)
    IN  Flatten([i \in 1..Len(lists) |-> lists[i].items])

RECURSIVE ScanWatchlist(_, _, _)
ScanWatchlist(w, text, sd) ==
    IF w = <<>> THEN [category |-> None, stocks |-> <<>>]
    ELSE IF CategoryMatches(w[1].conf, text)
         THEN [category |-> Some(w[1].name),
               stocks |-> ListOfSet(StocksOf(w[1].conf), sd)]
         ELSE ScanWatchlist(Tail(w), text, sd)

categorize_market(q, d, config, sd) == ScanWatchlist(config.watchlist, TextOf(q, d), sd)

----------------------------------------------------------------------------
(* filter_relevant_markets *)

\* market.get("question", ""), market.get("description", "")
TextField(f) == IF f = None THEN <<>> ELSE f[1]

\* mutant of PassesVolume: the comparison is turned round, so the markets
\* below the minimum are the ones kept
PassesVolumeInverted(m, config) ==
    OrZero(m.volume24hr) <= config.alert_thresholds.min_volume_24h - 1

\* not (volume_24h < min_volume_24h), with volume_24h = get("volume24hr", 0) or 0
PassesVolume(m, config) ==
    ~(OrZero(m.volume24hr) < config.alert_thresholds.min_volume_24h)

RECURSIVE filter_relevant_markets(_, _, _)
filter_relevant_markets(markets, config, sd) ==
    IF markets = <<>> THEN <<>>
    ELSE LET m == markets[1]
             c == categorize_market(TextField(m.question), TextField(m.description),
                                    config, sd)
             rest == filter_relevant_markets(Tail(markets), config, sd)
         IN  IF ~PassesVolume(m, config) THEN rest
             ELSE IF c.category # None
                  THEN <<[m EXCEPT !._category = c.category,
                                   !._affected_stocks = Some(c.stocks)]>> \o rest
                  ELSE rest

----------------------------------------------------------------------------
(* calculate_signals *)

\* outcomePrices as json.loads and float leave it: ok = FALSE when either
\* raises; prices are fractions * 1000 * Q
BadPrices == [ok |-> FALSE, prices |-> <<>>]
Prices(ps) == [ok |-> TRUE, prices |-> ps]

\* yes_price: float(prices[0]) if prices else 0, and 0 on any exception
YesPrice(m) ==
    IF ~m.outcomePrices.ok \/ m.outcomePrices.prices = <<>> THEN 0
    ELSE m.outcomePrices.prices[1]

\* day_change = (market.get("oneDayPriceChange") or 0) * 100, held in units
\* of 1/(100 * Q) of a percentage point
DayChange(m) == OrZero(m.oneDayPriceChange)

\* the signal dict built for one market (week_change, volume_total and slug
\* are copied through and left out)
SignalOf(m) ==
    [id |-> m.id,
     question |-> m.question,
     category |-> m._category,
     affected_stocks |-> IF m._affected_stocks = None THEN <<>>
                         ELSE m._affected_stocks[1],
     current_prob |-> RoundDiv(YesPrice(m), Q),
     day_change |-> RoundDiv(DayChange(m), Q),
     volume_24h |-> m.volume24hr]

\* mutant of TierOf: the comparisons exclude the thresholds themselves
TierOfStrict(m, config) ==
    IF Abs(DayChange(m)) > config.alert_thresholds.major_change THEN "major"
    ELSE IF Abs(DayChange(m)) > config.alert_thresholds.notable_change THEN "notable"
    ELSE "stable"

\* classify by magnitude of change
TierOf(m, config) ==
    IF Abs(DayChange(m)) >= config.alert_thresholds.major_change THEN "major"
    ELSE IF Abs(DayChange(m)) >= config.alert_thresholds.notable_change THEN "notable"
    ELSE "stable"

\* the signals of one tier, in the order of the markets
RECURSIVE TierSignals(_, _, _)
TierSignals(markets, config, tier) ==
    IF markets = <<>> THEN <<>>
    ELSE (IF TierOf(markets[1], config) = tier THEN <<SignalOf(markets[1])>> ELSE <<>>)
         \o TierSignals(Tail(markets), config, tier)

\* the sort key: abs(x["day_change"])
SortKey(x) == Abs(x.day_change)

\* x placed behind every element of the sorted list t whose key is not smaller
InsertDesc(t, x) ==
    LET n == Cardinality({i \in 1..Len(t) : SortKey(t[i]) >= SortKey(x)})
    IN  SubSeq(t, 1, n) \o <<x>> \o SubSeq(t, n + 1, Len(t))

\* mutant of SortedByAbsChange: the list is left as it was appended
SortedNot(s) == s

\* sorted(s, key=lambda x: abs(x["day_change"]), reverse=True): a stable sort
RECURSIVE SortedByAbsChange(_)
SortedByAbsChange(s) ==
    IF s = <<>> THEN <<>>
    ELSE InsertDesc(SortedByAbsChange(SubSeq(s, 1, Len(s) - 1)), s[Len(s)])

calculate_signals(markets, config) ==
    [major |-> SortedByAbsChange(TierSignals(markets, config, "major")),
     notable |-> SortedByAbsChange(TierSignals(markets, config, "notable")),
     stable |-> TierSignals(markets, config, "stable")]

----------------------------------------------------------------------------
(* Specification Spec: one polling run, fetch -> filter -> signals, and a   *)
(* second run of a new process over the same raw markets.                  *)

Market(i, q, v, c, p) ==
    [id |-> i, question |-> q, description |-> None, volume24hr |-> v,
     oneDayPriceChange |-> c, outcomePrices |-> p,
     _category |-> None, _affected_stocks |-> None]

RawMarkets ==
    {Market(i, Some(q), v, Some(c), Prices(<<400 * Q + 1, 600 * Q - 1>>)) :
        i \in {"m1", "m2"},
        q \in {<<"a", "b">>, <<"A">>},
        v \in {None, Some(MinVolume - 1), Some(MinVolume)},
        c \in {-700 * Q, 300 * Q}}

PipeConfigs ==
    {c \in Configs :
        /\ c.watchlist \in {<<CatFed, CatWar>>, <<CatOil, CatFed, CatWar>>}
        /\ c.alert_thresholds.major_change = 500 * Q}

Init ==
    /\ cfg \in PipeConfigs
    /\ seed \in Perms(Tickers)
    /\ pc = "fetched"
    /\ raw \in SeqsUpTo(RawMarkets, MaxRaw)
    /\ relevant = <<>> /\ signals = None /\ prevSignals = None
    /\ question = <<>> /\ description = <<>> /\ catResult = None
    /\ db = <<>> /\ clock = <<0, 0>> /\ cycle = <<>> /\ saved = FALSE
    /\ history = None
    /\ sigfile = <<>> /\ quotes = <<>> /\ results = None

\* relevant = filter_relevant_markets(raw_markets, config)
Filter ==
    /\ pc = "fetched"
    /\ relevant' = filter_relevant_markets(raw, cfg, seed)
    /\ pc' = "filtered"
    /\ UNCHANGED <<cfg, seed, raw, signals, prevSignals, catVars, dbVars, btVars>>

\* signals = calculate_signals(relevant, config)
Calculate ==
    /\ pc = "filtered"
    /\ signals' = Some(calculate_signals(relevant, cfg))
    /\ pc' = "done"
    /\ UNCHANGED <<cfg, seed, raw, relevant, prevSignals, catVars, dbVars, btVars>>

\* a new process (new string hashing) runs over identical raw markets
Rerun ==
    /\ pc = "done"
    /\ prevSignals = None
    /\ prevSignals' = signals
    /\ seed' \in Perms(Tickers)
    /\ relevant' = <<>>
    /\ signals' = None
    /\ pc' = "fetched"
    /\ UNCHANGED <<cfg, raw, catVars, dbVars, btVars>>

Next == Filter \/ Calculate \/ Rerun

Spec == Init /\ [][Next]_vars

\* every signal of the signal set, tier after tier
AllSignals(sg) == sg.major \o sg.notable \o sg.stable

\* the raw records the volume threshold lets through
Eligible(markets, config) ==
    {i \in 1..Len(markets) :
        OrZero(markets[i].volume24hr) >= config.alert_thresholds.min_volume_24h}

\* C7: a market whose volume24hr (None counts as 0) is below min_volume_24h is
\* not among the filtered markets (it is never given a category) and is in no
\* tier, and there are at most as many signals as input markets at or above
\* the threshold.
C7_LowVolumeNeverSignals ==
    /\ \A i \in 1..Len(relevant) :
          /\ OrZero(relevant[i].volume24hr) >= cfg.alert_thresholds.min_volume_24h
          /\ \E j \in Eligible(raw, cfg) :
                /\ raw[j].id = relevant[i].id
                /\ raw[j].question = relevant[i].question
                /\ raw[j].oneDayPriceChange = relevant[i].oneDayPriceChange
    /\ signals # None =>
          /\ \A i \in 1..Len(AllSignals(signals[1])) :
                OrZero(AllSignals(signals[1])[i].volume_24h)
                    >= cfg.alert_thresholds.min_volume_24h
          /\ Len(AllSignals(signals[1])) <= Cardinality(Eligible(raw, cfg))

\* C7 witness: of two fetched markets with a matching text, the one below the
\* threshold made no signal and the other made one.
C7_Witness ==
    /\ signals # None
    /\ Len(raw) = 2
    /\ raw[1].volume24hr = Some(MinVolume - 1)
    /\ raw[2].volume24hr = Some(MinVolume)
    /\ raw[1].question = Some(<<"a", "b">>)
    /\ raw[1].oneDayPriceChange = Some(-700 * Q)
    /\ Len(AllSignals(signals[1])) = 1
    /\ AllSignals(signals[1])[1].id = raw[2].id

\* the first raw record with identifier mid that the filter keeps
FirstKept(mid) ==
    Min({i \in 1..Len(raw) :
           /\ raw[i].id = mid
           /\ OrZero(raw[i].volume24hr) >= cfg.alert_thresholds.min_volume_24h
           /\ categorize_market(TextField(raw[i].question),
                                TextField(raw[i].description), cfg, seed).category # None})

\* C9: the signal set holds at most one signal per market identifier, built
\* from the first occurrence of that identifier in the input.
C9_Deduplicated ==
    signals # None =>
        LET all == AllSignals(signals[1])
        IN  /\ \A i, j \in 1..Len(all) : i # j => all[i].id # all[j].id
            /\ \A i \in 1..Len(all) :
                  /\ all[i].question = raw[FirstKept(all[i].id)].question
                  /\ all[i].volume_24h = raw[FirstKept(all[i].id)].volume24hr
                  /\ all[i].day_change
                        = RoundDiv(OrZero(raw[FirstKept(all[i].id)].oneDayPriceChange), Q)

\* C3: a second run over identical raw markets and configuration yields the
\* identical signal set: same signals, same tiers, same order, and the same
\* affected_stocks sequences.
C3_Deterministic ==
    (pc = "done" /\ prevSignals # None) => signals = prevSignals

----------------------------------------------------------------------------
(* Specification SpecSig: calculate_signals over bounded market lists. *)

SigChanges ==
    {None, Some(100 * Q), Some(200 * Q - 1), Some(-200 * Q), Some(200 * Q + 1),
     Some(300 * Q), Some(-500 * Q), Some(700 * Q)}

SigPrices == {BadPrices, Prices(<<400 * Q + 1, 600 * Q - 1>>)}

\* a list of filtered markets with the distinct identifiers 1, 2, ...
SigList(c, p) ==
    [i \in 1..Len(c) |->
        [Market(i, Some(<<"a", "b">>), Some(MinVolume), c[i], p[i])
           EXCEPT !._category = Some("fed"), !._affected_stocks = Some(<<"X">>)]]

InitSig ==
    /\ cfg \in {c \in Configs : c.watchlist = <<CatFed, CatWar>>}
    /\ seed = <<"X", "Y">>
    /\ pc = "filtered"
    /\ raw = <<>>
    /\ \E k \in 0..MaxSig :
          \E c \in [1..k -> SigChanges], p \in [1..k -> SigPrices] :
              relevant = SigList(c, p)
    /\ signals = None /\ prevSignals = None
    /\ question = <<>> /\ description = <<>> /\ catResult = None
    /\ db = <<>> /\ clock = <<0, 0>> /\ cycle = <<>> /\ saved = FALSE
    /\ history = None
    /\ sigfile = <<>> /\ quotes = <<>> /\ results = None

NextSig == Calculate

SpecSig == InitSig /\ [][NextSig]_vars

\* the tier a signal with identifier mid was put in
InTier(sg, tier, mid) == \E k \in 1..Len(sg[tier]) : sg[tier][k].id = mid

SortedDescStable(s) ==
    \A i, j \in 1..Len(s) :
        i < j => \/ SortKey(s[i]) > SortKey(s[j])
                 \/ (SortKey(s[i]) = SortKey(s[j]) /\ s[i].id < s[j].id)

----------------------------------------------------------------------------
(* Snapshot store: table market_snapshots, save_snapshot,                  *)
(* get_historical_changes.                                                 *)
(*                                                                         *)
(* A timestamp is the text the store holds, as the sequence                *)
(* <<date, separator character, time of day>>: dates and times are         *)
(* zero-padded fixed-width digits, so their texts compare as the numbers   *)
(* do, and the separator is held by its character code.  The store         *)
(* compares two such texts byte by byte from the left.                     *)

SpaceChar == 32   \* ' ' in CURRENT_TIMESTAMP's 'YYYY-MM-DD HH:MM:SS'
TChar == 84       \* 'T' in datetime.isoformat()'s 'YYYY-MM-DDTHH:MM:SS'

MaxSec == 1       \* last time of day the clock reaches

Clocks == (0..MaxDay) \X (0..MaxSec)

\* clock value a is later than clock value b
Later(a, b) == a[1] > b[1] \/ (a[1] = b[1] /\ a[2] > b[2])

\* DEFAULT CURRENT_TIMESTAMP
CurrentTimestamp(now) == <<now[1], SpaceChar, now[2]>>

\* (datetime.utcnow() - timedelta(days=days)).isoformat()
CutoffText(now, days) == <<now[1] - days, TChar, now[2]>>

\* a > b as the store compares two texts (first differing byte decides)
RECURSIVE TextGreater(_, _)
TextGreater(a, b) ==
    IF a = <<>> THEN FALSE
    ELSE IF b = <<>> THEN TRUE
    ELSE IF a[1] # b[1] THEN a[1] > b[1]
    ELSE TextGreater(Tail(a), Tail(b))

\* yes_price, no_price as save_snapshot parses them
NoPrice(m) ==
    IF ~m.outcomePrices.ok \/ Len(m.outcomePrices.prices) <= 1 THEN 0
    ELSE m.outcomePrices.prices[2]

\* INSERT OR IGNORE of one market at time now: ignored when question is NULL
\* (NOT NULL) or a row with the same (market_id, timestamp) exists (UNIQUE);
\* the timestamp is never passed, so it is the column's default.  Market
\* identifiers are always present here.
InsertOrIgnore(rows, m, now) ==
    IF \/ m.question = None
       \/ \E i \in 1..Len(rows) : /\ rows[i].market_id = m.id
                                  /\ rows[i].timestamp = CurrentTimestamp(now)
    THEN rows
    ELSE Append(rows, [market_id |-> m.id,
                       category |-> m._category,
                       yes_price |-> YesPrice(m),
                       no_price |-> NoPrice(m),
                       timestamp |-> CurrentTimestamp(now)])

RECURSIVE save_snapshot(_, _, _)
save_snapshot(rows, markets, now) ==
    IF markets = <<>> THEN rows
    ELSE save_snapshot(InsertOrIgnore(rows, markets[1], now), Tail(markets), now)

\* ORDER BY timestamp: x placed before the first row with a greater timestamp
InsertAsc(t, x) ==
    LET n == Cardinality({i \in 1..Len(t) : ~TextGreater(t[i].timestamp, x.timestamp)})
    IN  SubSeq(t, 1, n) \o <<x>> \o SubSeq(t, n + 1, Len(t))

RECURSIVE OrderByTimestamp(_)
OrderByTimestamp(s) ==
    IF s = <<>> THEN <<>>
    ELSE InsertAsc(OrderByTimestamp(SubSeq(s, 1, Len(s) - 1)), s[Len(s)])

\* SELECT yes_price, timestamp ... WHERE market_id = ? AND timestamp > ?
\* ORDER BY timestamp
get_historical_changes(rows, mid, days, now) ==
    LET hits == SelectSeq(rows, LAMBDA r :
                    /\ r.market_id = mid
                    /\ TextGreater(r.timestamp, CutoffText(now, days)))
        ordered == OrderByTimestamp(hits)
    IN  [i \in 1..Len(ordered) |->
            [price |-> ordered[i].yes_price, timestamp |-> ordered[i].timestamp]]

----------------------------------------------------------------------------
(* Specification SpecDB: polling cycles stored and queried as time passes. *)

MaxCycle == 2     \* markets in one polling cycle
MaxDays == 2      \* largest look-back of a query, in days

CycleMarkets ==
    {[Market(i, q, Some(MinVolume), None, Prices(<<400 * Q, 600 * Q>>))
        EXCEPT !._category = Some("fed"), !._affected_stocks = Some(<<"X">>)] :
        i \in {"m1", "m2"}, q \in {Some(<<"a", "b">>), None}}

InitDB ==
    /\ cfg \in {c \in PipeConfigs : c.watchlist = <<CatFed, CatWar>>}
    /\ seed = <<"X", "Y">>
    /\ pc = "polling"
    /\ db = <<>>
    /\ clock \in {c \in Clocks : c[1] = 0}
    /\ cycle \in SeqsUpTo(CycleMarkets, MaxCycle)
    /\ saved = FALSE
    /\ history = None
    /\ raw = <<>> /\ relevant = <<>> /\ signals = None /\ prevSignals = None
    /\ question = <<>> /\ description = <<>> /\ catResult = None
    /\ sigfile = <<>> /\ quotes = <<>> /\ results = None

\* time passes
Tick ==
    /\ \E c \in Clocks : Later(c, clock) /\ clock' = c
    /\ history' = None
    /\ UNCHANGED <<cfg, seed, pc, db, cycle, saved, catVars, pipeVars, btVars>>

\* a new polling cycle delivers its filtered markets
NewCycle ==
    /\ saved
    /\ cycle' \in SeqsUpTo(CycleMarkets, MaxCycle)
    /\ saved' = FALSE
    /\ history' = None
    /\ UNCHANGED <<cfg, seed, pc, db, clock, catVars, pipeVars, btVars>>

\* save_snapshot(relevant), the first time or as a replay of the same cycle
SaveSnapshot ==
    /\ Len(db) + Len(cycle) <= MaxRows
    /\ db' = save_snapshot(db, cycle, clock)
    /\ saved' = TRUE
    /\ history' = None
    /\ UNCHANGED <<cfg, seed, pc, clock, cycle, catVars, pipeVars, btVars>>

\* get_historical_changes(market_id, days)
Query ==
    /\ \E mid \in {"m1", "m2"}, days \in 1..MaxDays :
          history' = Some([market_id |-> mid, days |-> days, at |-> clock,
                           rows |-> get_historical_changes(db, mid, days, clock)])
    /\ UNCHANGED <<cfg, seed, pc, db, clock, cycle, saved, catVars, pipeVars, btVars>>

NextDB == Tick \/ NewCycle \/ SaveSnapshot \/ Query

SpecDB == InitDB /\ [][NextDB]_vars

\* C2: once a cycle's markets are stored, storing the same list again, at
\* any later moment, adds no row to market_snapshots.
C2_ReplayAddsNoRow ==
    [][(saved /\ saved' /\ cycle' = cycle) => db' = db]_vars

\* the moment a row was inserted, read back from its timestamp
InsertedAt(ts) == <<ts[1], ts[3]>>

\* C10: get_historical_changes(market_id, days) returns exactly the stored
\* rows of that market inserted strictly later than now minus days, in
\* ascending order of insertion time.
C10_RecentHistoryExact ==
    history # None =>
        LET h == history[1]
            cutoff == <<h.at[1] - h.days, h.at[2]>>
            want == {i \in 1..Len(db) :
                        /\ db[i].market_id = h.market_id
                        /\ Later(InsertedAt(db[i].timestamp), cutoff)}
        IN  /\ {r.timestamp : r \in Range(h.rows)} = {db[i].timestamp : i \in want}
            /\ Len(h.rows) = Cardinality(want)
            /\ \A i, j \in 1..Len(h.rows) :
                  i < j => ~Later(InsertedAt(h.rows[i].timestamp),
                                  InsertedAt(h.rows[j].timestamp))

----------------------------------------------------------------------------
(* Backtest scorer (src/backtest.py).                                      *)
(*                                                                         *)
(* Returns are integers counting 0.01 %, hit_rate counts 0.1 %.  The price *)
(* provider's answer for a ticker is [ok, closes]: ok = FALSE when the     *)
(* provider (or its import) raises, closes the closing prices in date      *)
(* order.                                                                  *)

Failed == [ok |-> FALSE, closes |-> <<>>]
Closes(cs) == [ok |-> TRUE, closes |-> cs]

\* the loop over hist.iterrows(): a return for every row whose predecessor's
\* close is truthy, round((close - prev) / prev * 100, 2)
RECURSIVE DailyReturns(_, _)
DailyReturns(cs, prev) ==
    IF cs = <<>> THEN <<>>
    ELSE (IF prev # None /\ prev[1] # 0
          THEN <<RoundDiv((cs[1] - prev[1]) * 10000, prev[1])>>
          ELSE <<>>)
         \o DailyReturns(Tail(cs), Some(cs[1]))

\* the values of the returned {date: return_pct}, in date order; {} when the
\* provider raises or the history is empty
get_stock_returns(h) ==
    IF ~h.ok \/ h.closes = <<>> THEN <<>> ELSE DailyReturns(h.closes, None)

\* direction = "bullish" if signal["day_change"] > 0 else "bearish"
Direction(sig) == IF sig.day_change > 0 THEN "bullish" ELSE "bearish"

\* mutant of Correct: a return of zero counts as a hit
CorrectNonStrict(direction, total) ==
    (direction = "bullish" /\ total >= 0) \/ (direction = "bearish" /\ total <= 0)

\* did the signal direction match the stock move?
Correct(direction, total) ==
    (direction = "bullish" /\ total > 0) \/ (direction = "bearish" /\ total < 0)

\* mutant of TopThree: every affected ticker is scored
TopAll(stocks) == stocks

\* stocks[:3]
TopThree(stocks) == SubSeq(stocks, 1, IF Len(stocks) < 3 THEN Len(stocks) ELSE 3)

\* the entries one signal appends to results["major_signals"]
RECURSIVE SignalEntries(_, _, _)
SignalEntries(sig, tickers, q) ==
    IF tickers = <<>> THEN <<>>
    ELSE LET returns == get_stock_returns(q[tickers[1]])
             total == SumSeq(returns)
         IN  (IF returns # <<>>
              THEN <<[question |-> sig.question,
                      ticker |-> tickers[1],
                      signal_direction |-> Direction(sig),
                      prob_change |-> sig.day_change,
                      stock_return |-> total,
                      correct_direction |-> Correct(Direction(sig), total)]>>
              ELSE <<>>)
             \o SignalEntries(sig, Tail(tickers), q)

RECURSIVE MajorEntries(_, _)
MajorEntries(major, q) ==
    IF major = <<>> THEN <<>>
    ELSE SignalEntries(major[1], TopThree(major[1].affected_stocks), q)
         \o MajorEntries(Tail(major), q)

\* analyze_signal_performance for a signals file with a timestamp (every file
\* the pipeline writes has one); tieUp says which way round(..., 2) takes a
\* mean that lies exactly between two hundredths, which in floating point
\* depends on the value's binary representation
analyze_signal_performance(major, q, tieUp) ==
    LET entries == MajorEntries(major, q)
        n == Len(entries)
        correct_count == Cardinality({i \in 1..n : entries[i].correct_direction})
        total == SumSeq([i \in 1..n |-> entries[i].stock_return])
    IN  [major_signals |-> entries,
         hit_rate |-> IF n = 0 THEN 0 ELSE RoundDiv(correct_count * 1000, n),
         avg_return |-> IF n = 0 THEN 0 ELSE RoundDivTie(total, n, tieUp)]

----------------------------------------------------------------------------
(* Specification SpecBT: one signals file scored against provider data. *)

BtTickers == {"A", "B", "C", "D"}

Histories == {Failed, Closes(<<100>>), Closes(<<100, 103>>), Closes(<<100, 100>>),
              Closes(<<103, 100>>)}

StockLists == {<<>>, <<"A", "B">>, <<"D", "C", "B", "A">>}

\* the major tier of a signals file: questions are the positions 1, 2, ...
MajorList(c, st) ==
    [i \in 1..Len(c) |-> [question |-> i, day_change |-> c[i],
                          affected_stocks |-> st[i]]]

InitBT ==
    /\ cfg \in {c \in PipeConfigs : c.watchlist = <<CatFed, CatWar>>}
    /\ seed = <<"X", "Y">>
    /\ pc = "scoring"
    /\ \E k \in 0..MaxMajor :
          \E c \in [1..k -> {-600, 0, 600}], st \in [1..k -> StockLists] :
              sigfile = MajorList(c, st)
    /\ quotes \in [BtTickers -> Histories]
    /\ results = None
    /\ raw = <<>> /\ relevant = <<>> /\ signals = None /\ prevSignals = None
    /\ question = <<>> /\ description = <<>> /\ catResult = None
    /\ db = <<>> /\ clock = <<0, 0>> /\ cycle = <<>> /\ saved = FALSE
    /\ history = None

Analyze ==
    /\ pc = "scoring"
    /\ \E tieUp \in BOOLEAN :
          results' = Some(analyze_signal_performance(sigfile, quotes, tieUp))
    /\ pc' = "scored"
    /\ UNCHANGED <<cfg, seed, sigfile, quotes, catVars, pipeVars, dbVars>>

NextBT == Analyze

SpecBT == InitBT /\ [][NextBT]_vars

\* the signal an entry was made for
SignalOfEntry(e) == sigfile[e.question]

\* sum of the daily returns the lookup gives for a ticker
LookupSum(t) == SumSeq(get_stock_returns(quotes[t]))

\* C5: an entry is bullish exactly when its signal's day_change > 0 and
\* bearish otherwise; correct_direction is true exactly when (bullish and sum
\* of returns > 0) or (bearish and sum < 0), so a sum of 0 is never correct.
C5_DirectionScoring ==
    results # None =>
        \A k \in 1..Len(results[1].major_signals) :
            LET e == results[1].major_signals[k]
                bull == SignalOfEntry(e).day_change > 0
            IN  /\ e.signal_direction = (IF bull THEN "bullish" ELSE "bearish")
                /\ e.correct_direction
                      <=> \/ (bull /\ LookupSum(e.ticker) > 0)
                          \/ (~bull /\ LookupSum(e.ticker) < 0)
                /\ LookupSum(e.ticker) = 0 => ~e.correct_direction

\* C5 witness: a bullish entry with a positive sum scored correct, a bearish
\* entry (day_change = 0) and a bullish entry with a sum of 0 scored
\* incorrect.
C5_Witness ==
    /\ results # None
    /\ \E k \in 1..Len(results[1].major_signals) :
          LET e == results[1].major_signals[k]
          IN  e.prob_change = 600 /\ e.stock_return = 300 /\ e.correct_direction
    /\ \E k \in 1..Len(results[1].major_signals) :
          LET e == results[1].major_signals[k]
          IN  /\ e.prob_change = 0 /\ e.signal_direction = "bearish"
              /\ e.stock_return = 0 /\ ~e.correct_direction
    /\ \E k \in 1..Len(results[1].major_signals) :
          LET e == results[1].major_signals[k]
          IN  e.prob_change = 600 /\ e.stock_return = 0 /\ ~e.correct_direction

\* the first three affected tickers of signal s
FirstThreeTickers(s) ==
    {sigfile[s].affected_stocks[i] :
        i \in {j \in 1..Len(sigfile[s].affected_stocks) : j <= 3}}

\* exactly one entry per (major signal, ticker among its first three) whose
\* lookup is non-empty, and no other entry
OneEntryPerScoredPair ==
    LET es == results[1].major_signals
    IN  /\ \A k \in 1..Len(es) : es[k].question \in 1..Len(sigfile)
        /\ \A s \in 1..Len(sigfile), t \in BtTickers :
              Cardinality({k \in 1..Len(es) : es[k].question = s /\ es[k].ticker = t})
                 = IF t \in FirstThreeTickers(s) /\ get_stock_returns(quotes[t]) # <<>>
                   THEN 1 ELSE 0

CorrectCount == 
    Cardinality({k \in 1..Len(results[1].major_signals) :
                    results[1].major_signals[k].correct_direction})

ReturnSum ==
    SumSeq([k \in 1..Len(results[1].major_signals) |->
               results[1].major_signals[k].stock_return])

\* C6 as claimed: one entry per scored pair with a non-empty lookup and none
\* otherwise; hit_rate is correct / entries * 100 and avg_return is the mean
\* over the entries; both are 0 when there are no entries.
C6_SkippedNeverCounted ==
    results # None =>
        LET n == Len(results[1].major_signals)
        IN  /\ OneEntryPerScoredPair
            /\ n = 0 => (results[1].hit_rate = 0 /\ results[1].avg_return = 0)
            /\ n > 0 => /\ results[1].hit_rate * n = CorrectCount * 1000
                        /\ results[1].avg_return * n = ReturnSum

\* C6 amended: as claimed, except that hit_rate is correct / entries * 100
\* rounded to one decimal and avg_return is the mean rounded to two decimals.
C6_SkippedNeverCountedRounded ==
    results # None =>
        LET n == Len(results[1].major_signals)
        IN  /\ OneEntryPerScoredPair
            /\ n = 0 => (results[1].hit_rate = 0 /\ results[1].avg_return = 0)
            /\ n > 0 => /\ 2 * Abs(results[1].hit_rate * n - CorrectCount * 1000) <= n
                        /\ 2 * Abs(results[1].avg_return * n - ReturnSum) <= n

\* C6 witness: a signal with four affected tickers, the second failing at the
\* provider and the first with a one-day history, leaves one entry (the
\* third ticker) and the aggregates are taken over that entry alone.
C6_Witness ==
    /\ results # None
    /\ Len(sigfile) = 1
    /\ sigfile[1].affected_stocks = <<"D", "C", "B", "A">>
    /\ quotes["D"] = Closes(<<100>>)
    /\ quotes["C"] = Failed
    /\ quotes["B"] = Closes(<<100, 103>>)
    /\ quotes["A"] = Closes(<<100, 103>>)
    /\ sigfile[1].day_change = 600
    /\ Len(results[1].major_signals) = 1
    /\ results[1].hit_rate = 1000
    /\ results[1].avg_return = 300

----------------------------------------------------------------------------
(* Specification SpecCat: categorize_market over bounded texts. *)

InitCat ==
    /\ cfg \in Configs
    /\ seed \in Perms(Tickers)
    /\ pc = "start"
    /\ question \in Strings
    /\ description \in Strings
    /\ catResult = None
    /\ raw = <<>> /\ relevant = <<>> /\ signals = None /\ prevSignals = None
    /\ db = <<>> /\ clock = <<0, 0>> /\ cycle = <<>> /\ saved = FALSE
    /\ history = None
    /\ sigfile = <<>> /\ quotes = <<>> /\ results = None

Categorize ==
    /\ pc = "start"
    /\ catResult' = Some(categorize_market(question, description, cfg, seed))
    /\ pc' = "done"
    /\ UNCHANGED <<cfg, seed, question, description, pipeVars, dbVars, btVars>>

NextCat == Categorize

SpecCat == InitCat /\ [][NextCat]_vars

\* keyword k occurs in t, letter case ignored on both sides
OccursIgnoringCase(t, k) ==
    \E i \in 0..(Len(t) - Len(k)) :
        \A j \in 1..Len(k) : LowerChar(t[i + j]) = LowerChar(k[j])

\* the positions, in declared order, of the categories with a keyword in t
MatchingCategories(w, t) ==
    {i \in 1..Len(w) :
        /\ w[i].conf.keywords # None
        /\ \E n \in 1..Len(w[i].conf.keywords[1]) :
              OccursIgnoringCase(t, w[i].conf.keywords[1][n])}

\* the tickers of every list-valued entry of a category's stock_impact
ImpactTickers(conf) ==
    IF conf.stock_impact = None THEN {}
    ELSE UNION {Range(conf.stock_impact[1][n].items) :
                  n \in {m \in 1..Len(conf.stock_impact[1]) : conf.stock_impact[1][m].isList}}

NoDuplicates(s) == \A i, j \in 1..Len(s) : i # j => s[i] # s[j]

\* C4: categorize_market returns the first category, in the watchlist's
\* declared order, that has a keyword occurring case-insensitively in
\* question + " " + description, with the duplicate-free union of that
\* category's stock_impact ticker lists; with no such category it returns
\* (None, []).
C4_FirstMatchWins ==
    catResult # None =>
        LET r == catResult[1]
            w == cfg.watchlist
            M == MatchingCategories(w, question \o <<" ">> \o description)
        IN  IF M = {}
            THEN r.category = None /\ r.stocks = <<>>
            ELSE /\ r.category = Some(w[Min(M)].name)
                 /\ Range(r.stocks) = ImpactTickers(w[Min(M)].conf)
                 /\ NoDuplicates(r.stocks)

\* C4 witness: two categories match, the later-declared one by a keyword that
\* occurs earlier in the text, and the earlier-declared category is returned
\* with its two tickers.
C4_Witness ==
    /\ catResult # None
    /\ cfg.watchlist = <<CatFed, CatWar>>
    /\ question = <<"b">> /\ description = <<"A", "b">>
    /\ catResult[1].category = Some("fed")
    /\ Len(catResult[1].stocks) = 2

====
